---------------------------- MODULE Spec2Model ----------------------------
(***************************************************************************)
(* Model of src/script.py: the image download pipeline.                    *)
(*                                                                         *)
(* main() walks BASE_DIR, creates one process_markdown_file task per .md   *)
(* file and gathers them.  Each task reads its file, extracts the image    *)
(* references, creates the image sub-directory and downloads the images    *)
(* one after another through download_image / retry_request.               *)
(*                                                                         *)
(* Tasks are asyncio coroutines: a task runs without interruption between  *)
(* two awaits, so one action of the model is the code between two awaits.  *)
(* The awaits are client.get (script.py:39), asyncio.sleep (script.py:48)  *)
(* and the gather of main (script.py:128).                                 *)
(*                                                                         *)
(* A text is a sequence of lines; a line is one of                         *)
(*   <<"inline", name>>      ![caption][name]                              *)
(*   <<"def", name, url>>    [name]: http...                               *)
(*   <<"text">>              a line of prose                               *)
(*   <<"blank">>             an empty line                                 *)
(***************************************************************************)
EXTENDS Naturals, Sequences, FiniteSets

\* ---------------------------------------------------------------- bounds

\* longest text (in lines) a markdown file holds
MaxLines == 3
\* most .md files os.walk finds under BASE_DIR
MaxFiles == 2

\* names of inline markers; only those of DefinedNames have a definition line
Names == {"a", "b"}
DefinedNames == {"a"}
URLs == {"u1", "u2"}
\* the .md files that may exist under BASE_DIR, as <<directory, stem>>
Tree == {<<"d1", "s1">>, <<"d2", "s1">>, <<"d2", "s2">>}

\* ------------------------------------------------------ program constants

\* retry_request(client, image_url, retries=3, backoff_factor=2.0)
Retries == 3
BackoffFactor == 2
\* delay = 1
InitialDelay == 1

\* ------------------------------------------------------------------ texts

InlineLines == {<<"inline", n>> : n \in Names}
DefLines == {<<"def", n, u>> : n \in DefinedNames, u \in URLs}
Lines == InlineLines \cup DefLines \cup {<<"text">>, <<"blank">>}
Texts == UNION {[1..k -> Lines] : k \in 0..MaxLines}

\* outcomes of the external collaborators
GetOutcomes == {"ok", "transient", "status"}
WriteOutcomes == {"ok", "open_fails", "write_fails"}

\* ------------------------------------------------------------- extraction

RECURSIVE LastNonBlank(_, _)
\* index of the last line of text[1..k] that is not blank, 0 if there is none
LastNonBlank(text, k) ==
    IF k = 0 THEN 0
    ELSE IF text[k] # <<"blank">> THEN k
    ELSE LastNonBlank(text, k - 1)

\* re.findall(REFERENCE_IMAGE_PATTERN, content).  The pattern ends in \s*$ and
\* is used without re.MULTILINE, so $ matches only at the end of the text:
\* a definition matches only when nothing but whitespace follows it.
FindReferences(text) ==
    LET k == LastNonBlank(text, Len(text))
    IN  IF k > 0 /\ text[k][1] = "def"
        THEN << <<text[k][2], text[k][3]>> >>
        ELSE << >>

\* dict(pairs): a later pair for the same key replaces an earlier one
Dict(pairs) ==
    [n \in {pairs[j][1] : j \in DOMAIN pairs} |->
        LET last == CHOOSE j \in DOMAIN pairs :
                        /\ pairs[j][1] = n
                        /\ \A l \in DOMAIN pairs : pairs[l][1] = n => l <= j
        IN  pairs[last][2]]

IsInline(line) == line[1] = "inline"

RECURSIVE NamesOf(_)
NamesOf(lines) ==
    IF lines = << >> THEN << >> ELSE <<Head(lines)[2]>> \o NamesOf(Tail(lines))

\* re.findall(INLINE_IMAGE_PATTERN, content): the names of the inline markers,
\* in the order of the text
FindInline(text) == NamesOf(SelectSeq(text, IsInline))

RECURSIVE ResolveOnce(_, _)
\* Resolve that appends a pair only for the first marker of each name
ResolveOnce(inline_references, image_references) ==
    IF inline_references = << >> THEN << >>
    ELSE LET n == Len(inline_references)
             ref == inline_references[n]
             before == SubSeq(inline_references, 1, n - 1)
             rest == ResolveOnce(before, image_references)
         IN  IF /\ ref \in DOMAIN image_references
                /\ \A j \in 1..(n - 1) : inline_references[j] # ref
             THEN rest \o << <<ref, image_references[ref]>> >>
             ELSE rest

RECURSIVE Resolve(_, _)
\* for ref in inline_references: if ref in image_references: append
Resolve(inline_references, image_references) ==
    IF inline_references = << >> THEN << >>
    ELSE LET ref == Head(inline_references)
             rest == Resolve(Tail(inline_references), image_references)
         IN  IF ref \in DOMAIN image_references
             THEN << <<ref, image_references[ref]>> >> \o rest
             ELSE rest

\* Steps 1 and 2 of process_markdown_file
ImageUrls(text) == Resolve(FindInline(text), Dict(FindReferences(text)))

\* NoImages with the early return left out
NoImagesNever(urls) == FALSE

\* if not image_urls: return
NoImages(urls) == urls = << >>

\* Path(file_path).stem
Stem(file_path) == file_path[2]

\* os.path.join(image_subdir, f"{ref_name}.png"), as <<stem, name>>
ImgPath(subdir, ref_name) == <<subdir, ref_name>>


\* ------------------------------------------------------------------ state

VARIABLES
    main_pc,         \* where main() is: "walked", "gather", "done", "failed"
    markdown_files,  \* the list main() collected from os.walk
    tasks,           \* tasks[i]: the process_markdown_file task of markdown_files[i]
    dirs,            \* sub-directories that exist under IMAGE_DIR
    files,           \* files under IMAGE_DIR: ImgPath |-> content
    extract,         \* the locals of the extraction steps of one
                     \* process_markdown_file call, step by step
    context,         \* svc: ContextFilter.context of the one context_filter
    requests,        \* svc: the requests LogContextMiddleware.dispatch handles
    log              \* svc: the records the console handler has formatted

vars == <<main_pc, markdown_files, tasks, dirs, files,
          extract, context, requests, log>>

\* {}: a dict without keys
EmptyDict == [n \in {} |-> ""]

\* no extraction is being followed step by step
NoExtract ==
    [pc |-> "none", content |-> << >>, image_references |-> EmptyDict,
     inline_references |-> << >>, image_urls |-> << >>]

\* the service handles no request and has logged nothing
SvcIdle ==
    /\ context = EmptyDict
    /\ requests = << >>
    /\ log = << >>

\* A task record:
\*   pc            "created", "scheduled", "get" (awaiting client.get),
\*                 "sleep" (awaiting asyncio.sleep), "returned", "raised"
\*                 (an exception left process_markdown_file), "cancelled"
\*   image_urls    the list of (ref_name, image_url) pairs
\*   image_subdir  the stem the image sub-directory is named after
\*   pos           position in image_urls of the pair being downloaded
\*   attempt, delay  the locals of the running retry_request call
\*   exc           what raised the exception that left the task: "none",
\*                 "read" (open/read of the .md file), "mkdir", "write"
\*   calls         one record per download_image call made so far:
\*                 name      ref_name
\*                 gets      number of client.get calls made
\*                 outcomes  how each client.get that has returned ended
\*                 sleeps    the delay of each asyncio.sleep started
\*                 result    how retry_request ended: "pending", "ok",
\*                           "status" (HTTPStatusError), "exhausted"
\*                 wrote     whether the call wrote the file
NewTask ==
    [pc |-> "created", image_urls |-> << >>, image_subdir |-> "",
     pos |-> 0, attempt |-> 0, delay |-> 0, exc |-> "none", calls |-> << >>]

NewCall(ref_name) ==
    [name |-> ref_name, gets |-> 0, outcomes |-> << >>, sleeps |-> << >>,
     result |-> "pending", wrote |-> FALSE]

RECURSIVE Distinct(_)
Distinct(seq) ==
    \/ seq = << >>
    \/ /\ \A j \in 2..Len(seq) : seq[j] # seq[1]
       /\ Distinct(Tail(seq))

\* os.walk yields every file once, in an order the file system decides
WalkResults ==
    {fs \in UNION {[1..k -> Tree] : k \in 0..MaxFiles} : Distinct(fs)}

Init ==
    /\ main_pc = "walked"
    /\ markdown_files \in WalkResults
    /\ tasks = [i \in DOMAIN markdown_files |-> NewTask]
    /\ dirs = {}
    /\ files = [p \in {} |-> ""]
    /\ extract = NoExtract
    /\ SvcIdle

\* ---------------------------------------------------------- retry_request

\* Retryable with HTTPStatusError caught by the first except clause too
RetryableAlsoStatus(outcome) == outcome \in {"transient", "status"}

\* except (TimeoutException, RequestError): sleep and go round the loop;
\* except HTTPStatusError: return None
Retryable(outcome) == outcome = "transient"

\* NextDelay without the multiplication
NextDelayConstant(delay) == delay

\* delay *= backoff_factor
NextDelay(delay) == delay * BackoffFactor

\* for attempt in range(retries): is there another iteration
LoopContinues(attempt) == attempt < Retries

\* one iteration of the loop up to await client.get(image_url)
IssueGet(t) ==
    [t EXCEPT !.pc = "get", !.calls[t.pos].gets = @ + 1]

\* await client.get has returned or raised
GotOutcome(t, outcome) ==
    [t EXCEPT !.calls[t.pos].outcomes = Append(@, outcome)]

\* StartFetch with download_image started for image_urls[k] and for every
\* pair after it, none of them awaited before the next starts
StartFetchNoAwait(t, k) ==
    [t EXCEPT !.pos = k, !.attempt = 0, !.delay = InitialDelay, !.pc = "get",
              !.calls = @ \o [j \in 1..(Len(t.image_urls) - k + 1) |->
                                [NewCall(t.image_urls[k + j - 1][1]) EXCEPT !.gets = 1]]]

\* download_image called for image_urls[k]: retry_request starts
StartFetch(t, k) ==
    IssueGet([t EXCEPT !.pos = k, !.attempt = 0, !.delay = InitialDelay,
                       !.calls = Append(@, NewCall(t.image_urls[k][1]))])

\* NextRef with a loop that ends at the first download that failed
NextRefStopsOnFailure(t) ==
    IF t.pos > 0 /\ t.calls[t.pos].result # "ok"
    THEN [t EXCEPT !.pc = "returned"]
    ELSE IF t.pos < Len(t.image_urls)
         THEN StartFetch(t, t.pos + 1)
         ELSE [t EXCEPT !.pc = "returned"]

\* the for loop of process_markdown_file: the next pair, or return
NextRef(t) ==
    IF t.pos < Len(t.image_urls)
    THEN StartFetch(t, t.pos + 1)
    ELSE [t EXCEPT !.pc = "returned"]

\* ResponseTruthy with the test of the response left out
ResponseAlwaysTruthy(result) == TRUE

\* if response: (None is falsy, a Response object is truthy)
ResponseTruthy(result) == result = "ok"

\* response.content
Content(result, image_url) == IF result = "ok" THEN image_url ELSE "none"

WriteFile(path, bytes) ==
    [p \in DOMAIN files \cup {path} |-> IF p = path THEN bytes ELSE files[p]]

\* retry_request has returned to download_image with result (task holds its
\* locals); w is what the file system does with open(dest_path, "wb") and
\* f.write.  The for loop of process_markdown_file then moves on.
DownloadImageTail(i, task, result, w) ==
    LET t == [task EXCEPT !.calls[task.pos].result = result]
        image_url == t.image_urls[t.pos][2]
        img_path == ImgPath(t.image_subdir, t.image_urls[t.pos][1])
    IN  IF ResponseTruthy(result)
        THEN \/ /\ w = "ok"
                /\ files' = WriteFile(img_path, Content(result, image_url))
                /\ tasks' = [tasks EXCEPT
                               ![i] = NextRef([t EXCEPT !.calls[t.pos].wrote = TRUE])]
             \/ /\ w = "open_fails"
                /\ files' = files
                /\ tasks' = [tasks EXCEPT
                               ![i] = [t EXCEPT !.pc = "raised", !.exc = "write"]]
             \/ /\ w = "write_fails"
                /\ files' = WriteFile(img_path, "partial")
                /\ tasks' = [tasks EXCEPT
                               ![i] = [t EXCEPT !.pc = "raised", !.exc = "write"]]
        ELSE /\ files' = files
             /\ tasks' = [tasks EXCEPT ![i] = NextRef(t)]

\* ---------------------------------------------------------------- actions

\* main(): the tasks list is built and gather schedules every coroutine
Launch ==
    /\ main_pc = "walked"
    /\ main_pc' = "gather"
    /\ tasks' = [i \in DOMAIN tasks |-> [tasks[i] EXCEPT !.pc = "scheduled"]]
    /\ UNCHANGED <<extract, context, requests, log>>
    /\ UNCHANGED <<markdown_files, dirs, files>>

Running(i) == main_pc = "gather" /\ i \in DOMAIN tasks

\* process_markdown_file from its first line to its first await
\* open(file_path) or f.read() fails
ProcessReadFails(i) ==
    /\ Running(i) /\ tasks[i].pc = "scheduled"
    /\ tasks' = [tasks EXCEPT ![i].pc = "raised", ![i].exc = "read"]
    /\ UNCHANGED <<extract, context, requests, log>>
    /\ UNCHANGED <<main_pc, markdown_files, dirs, files>>

\* no image to download: return before the directory is created
ProcessNoImages(i) ==
    /\ Running(i) /\ tasks[i].pc = "scheduled"
    /\ \E content \in Texts :
          /\ NoImages(ImageUrls(content))
          /\ tasks' = [tasks EXCEPT ![i].pc = "returned",
                                    ![i].image_urls = ImageUrls(content)]
    /\ UNCHANGED <<extract, context, requests, log>>
    /\ UNCHANGED <<main_pc, markdown_files, dirs, files>>

\* ensure_directory_exists(image_subdir) fails
ProcessMkdirFails(i) ==
    /\ Running(i) /\ tasks[i].pc = "scheduled"
    /\ \E content \in Texts :
          /\ ~NoImages(ImageUrls(content))
          /\ tasks' = [tasks EXCEPT ![i].pc = "raised",
                                    ![i].exc = "mkdir",
                                    ![i].image_urls = ImageUrls(content),
                                    ![i].image_subdir = Stem(markdown_files[i])]
    /\ UNCHANGED <<extract, context, requests, log>>
    /\ UNCHANGED <<main_pc, markdown_files, dirs, files>>

\* the directory is created and the for loop starts the first download
ProcessStart(i) ==
    /\ Running(i) /\ tasks[i].pc = "scheduled"
    /\ \E content \in Texts :
          /\ ~NoImages(ImageUrls(content))
          /\ tasks' = [tasks EXCEPT ![i] =
                NextRef([tasks[i] EXCEPT
                            !.image_urls = ImageUrls(content),
                            !.image_subdir = Stem(markdown_files[i])])]
    /\ dirs' = dirs \cup {Stem(markdown_files[i])}
    /\ UNCHANGED <<extract, context, requests, log>>
    /\ UNCHANGED <<main_pc, markdown_files, files>>

\* await client.get returns a response with a success status
GetOk(i) ==
    /\ Running(i) /\ tasks[i].pc = "get"
    /\ \E w \in WriteOutcomes :
          DownloadImageTail(i, GotOutcome(tasks[i], "ok"), "ok", w)
    /\ UNCHANGED <<extract, context, requests, log>>
    /\ UNCHANGED <<main_pc, markdown_files, dirs>>

\* await client.get raises, or raise_for_status raises
GetFails(i) ==
    /\ Running(i) /\ tasks[i].pc = "get"
    /\ \E outcome \in GetOutcomes \ {"ok"} :
          LET t == GotOutcome(tasks[i], outcome)
          IN  IF Retryable(outcome)
              THEN /\ tasks' = [tasks EXCEPT ![i] =
                                  [t EXCEPT !.pc = "sleep",
                                            !.calls[t.pos].sleeps = Append(@, t.delay)]]
                   /\ files' = files
              ELSE \E w \in WriteOutcomes : DownloadImageTail(i, t, "status", w)
    /\ UNCHANGED <<extract, context, requests, log>>
    /\ UNCHANGED <<main_pc, markdown_files, dirs>>

\* await asyncio.sleep(delay) returns: delay grows and the loop goes on or ends
SleepEnds(i) ==
    /\ Running(i) /\ tasks[i].pc = "sleep"
    /\ LET t == [tasks[i] EXCEPT !.delay = NextDelay(@), !.attempt = @ + 1]
       IN  IF LoopContinues(t.attempt)
           THEN /\ tasks' = [tasks EXCEPT ![i] = IssueGet(t)]
                /\ files' = files
           ELSE \E w \in WriteOutcomes : DownloadImageTail(i, t, "exhausted", w)
    /\ UNCHANGED <<extract, context, requests, log>>
    /\ UNCHANGED <<main_pc, markdown_files, dirs>>

\* await tqdm_asyncio.gather(*tasks) returns: every task has returned
MainDone ==
    /\ main_pc = "gather"
    /\ \A i \in DOMAIN tasks : tasks[i].pc = "returned"
    /\ main_pc' = "done"
    /\ UNCHANGED <<extract, context, requests, log>>
    /\ UNCHANGED <<markdown_files, tasks, dirs, files>>

\* gather re-raises the exception of a task: it leaves main() through the
\* with blocks while the other tasks are still suspended
MainRaises ==
    /\ main_pc = "gather"
    /\ \E i \in DOMAIN tasks : tasks[i].pc = "raised"
    /\ main_pc' = "failed"
    /\ UNCHANGED <<extract, context, requests, log>>
    /\ UNCHANGED <<markdown_files, tasks, dirs, files>>

Unfinished(t) == t.pc \notin {"returned", "raised", "cancelled"}

\* asyncio.run(main()): after main() has raised, the tasks left are cancelled
CancelTasks ==
    /\ main_pc = "failed"
    /\ \E i \in DOMAIN tasks : Unfinished(tasks[i])
    /\ tasks' = [i \in DOMAIN tasks |->
                    IF Unfinished(tasks[i])
                    THEN [tasks[i] EXCEPT !.pc = "cancelled"]
                    ELSE tasks[i]]
    /\ UNCHANGED <<extract, context, requests, log>>
    /\ UNCHANGED <<main_pc, markdown_files, dirs, files>>

Next ==
    \/ Launch
    \/ \E i \in DOMAIN tasks : ProcessReadFails(i)
    \/ \E i \in DOMAIN tasks : ProcessNoImages(i)
    \/ \E i \in DOMAIN tasks : ProcessMkdirFails(i)
    \/ \E i \in DOMAIN tasks : ProcessStart(i)
    \/ \E i \in DOMAIN tasks : GetOk(i)
    \/ \E i \in DOMAIN tasks : GetFails(i)
    \/ \E i \in DOMAIN tasks : SleepEnds(i)
    \/ MainDone
    \/ MainRaises
    \/ CancelTasks

Spec == Init /\ [][Next]_vars

\* one step of the coroutine of document i: the event loop resumes it when
\* its GET has returned a response or an error, or its sleep has ended
TaskStep(i) ==
    \/ ProcessReadFails(i)
    \/ ProcessNoImages(i)
    \/ ProcessMkdirFails(i)
    \/ ProcessStart(i)
    \/ GetOk(i)
    \/ GetFails(i)
    \/ SleepEnds(i)

\* main() and asyncio.run go on whenever they can
MainStep == Launch \/ MainDone \/ MainRaises \/ CancelTasks

\* every GET comes back, every sleep ends, the event loop runs what is ready
Fairness ==
    /\ \A i \in 1..MaxFiles : WF_vars(TaskStep(i))
    /\ WF_vars(MainStep)

FairSpec == Spec /\ Fairness

\* A run in which os.walk finds exactly one .md file.  With one task there
\* is never a task left to cancel.
InitSingle == Init /\ Len(markdown_files) = 1

NextSingle ==
    \/ Launch
    \/ \E i \in DOMAIN tasks : ProcessReadFails(i)
    \/ \E i \in DOMAIN tasks : ProcessNoImages(i)
    \/ \E i \in DOMAIN tasks : ProcessMkdirFails(i)
    \/ \E i \in DOMAIN tasks : ProcessStart(i)
    \/ \E i \in DOMAIN tasks : GetOk(i)
    \/ \E i \in DOMAIN tasks : GetFails(i)
    \/ \E i \in DOMAIN tasks : SleepEnds(i)
    \/ MainDone
    \/ MainRaises

SpecSingle == InitSingle /\ [][NextSingle]_vars

\* -------------------------------------- the extraction, step by step

\* texts in which every name may have definition lines
AllDefLines == {<<"def", n, u>> : n \in Names, u \in URLs}
ExtractLines == InlineLines \cup AllDefLines \cup {<<"text">>, <<"blank">>}
ExtractTexts == UNION {[1..k -> ExtractLines] : k \in 0..MaxLines}

\* process_markdown_file has read the file: content = f.read()
InitExtract ==
    /\ main_pc = "walked"
    /\ markdown_files = << >>
    /\ tasks = << >>
    /\ dirs = {}
    /\ files = [p \in {} |-> ""]
    /\ SvcIdle
    /\ \E content \in ExtractTexts :
          extract = [NoExtract EXCEPT !.pc = "read", !.content = content]

\* image_references = dict(re.findall(REFERENCE_IMAGE_PATTERN, content))
ExtractReferences ==
    /\ extract.pc = "read"
    /\ extract' = [extract EXCEPT
                      !.pc = "references",
                      !.image_references = Dict(FindReferences(extract.content))]
    /\ UNCHANGED <<main_pc, markdown_files, tasks, dirs, files>>
    /\ UNCHANGED <<context, requests, log>>

\* inline_references = re.findall(INLINE_IMAGE_PATTERN, content)
ExtractInline ==
    /\ extract.pc = "references"
    /\ extract' = [extract EXCEPT
                      !.pc = "inline",
                      !.inline_references = FindInline(extract.content)]
    /\ UNCHANGED <<main_pc, markdown_files, tasks, dirs, files>>
    /\ UNCHANGED <<context, requests, log>>

\* the for loop that fills image_urls
ExtractResolve ==
    /\ extract.pc = "inline"
    /\ extract' = [extract EXCEPT
                      !.pc = "resolved",
                      !.image_urls = Resolve(extract.inline_references,
                                             extract.image_references)]
    /\ UNCHANGED <<main_pc, markdown_files, tasks, dirs, files>>
    /\ UNCHANGED <<context, requests, log>>

NextExtract ==
    \/ ExtractReferences
    \/ ExtractInline
    \/ ExtractResolve

SpecExtract == InitExtract /\ [][NextExtract]_vars

----------------------------------------------------------------------------
\* The svc application: LogContextMiddleware around view, one global
\* ContextFilter on the root logger.

\* number of requests the service receives
MaxRequests == 2

UserIds == {"u1", "u2"}
Platforms == {"p1", "p2"}

\* the headers of a request: each of the two headers is present or absent
HeaderNames == {"Svc-User-ID", "Svc-Platform"}

HeaderValues(key) == IF key = "Svc-User-ID" THEN UserIds ELSE Platforms

Headers ==
    {h \in UNION {[S -> UserIds \cup Platforms] : S \in SUBSET HeaderNames} :
        \A key \in DOMAIN h : h[key] \in HeaderValues(key)}

\* request.headers.get(key, default)
HeaderGet(headers, key, default) ==
    IF key \in DOMAIN headers THEN headers[key] ELSE default

\* ContextFilter.set_context: self.context.update(kwargs)
SetContext(ctx, kwargs) ==
    [k \in DOMAIN ctx \cup DOMAIN kwargs |->
        IF k \in DOMAIN kwargs THEN kwargs[k] ELSE ctx[k]]

\* a record emitted through the root logger: ContextFilter.filter sets
\* record.tags to the context and JsonFormatter dumps it at once; request is
\* the request whose handling emitted the record
Emit(message, r, ctx) ==
    [message |-> message, request |-> r, tags |-> ctx]

PipelineIdle ==
    /\ main_pc = "walked"
    /\ markdown_files = << >>
    /\ tasks = << >>
    /\ dirs = {}
    /\ files = [p \in {} |-> ""]
    /\ extract = NoExtract

InitSvc == PipelineIdle /\ SvcIdle

\* dispatch up to its await of call_next, and view up to the sleep in work
Dispatch ==
    /\ Len(requests) < MaxRequests
    /\ \E headers \in Headers :
          LET user_id  == HeaderGet(headers, "Svc-User-ID", "unknown")
              platform == HeaderGet(headers, "Svc-Platform", "unknown")
              ctx      == SetContext(context, [user_id |-> user_id, platform |-> platform])
              r        == Len(requests) + 1
          IN  /\ requests' = Append(requests, [pc |-> "work", user_id |-> user_id,
                                               platform |-> platform])
              /\ context' = ctx
              /\ log' = Append(log, Emit("Handling request", r, ctx))
    /\ UNCHANGED <<main_pc, markdown_files, tasks, dirs, files, extract>>

\* the sleep of work ends: work logs, view returns its response
WorkDone(r) ==
    /\ requests[r].pc = "work"
    /\ log' = Append(log, Emit("Work done after 1 second", r, context))
    /\ requests' = [requests EXCEPT ![r].pc = "respond"]
    /\ UNCHANGED <<main_pc, markdown_files, tasks, dirs, files, extract, context>>

\* call_next has returned: dispatch logs, calls set_context(**{}) and returns
Finish(r) ==
    /\ requests[r].pc = "respond"
    /\ log' = Append(log, Emit("Finished handling request", r, context))
    /\ context' = SetContext(context, EmptyDict)
    /\ requests' = [requests EXCEPT ![r].pc = "done"]
    /\ UNCHANGED <<main_pc, markdown_files, tasks, dirs, files, extract>>

NextSvc ==
    \/ Dispatch
    \/ \E r \in DOMAIN requests : WorkDone(r)
    \/ \E r \in DOMAIN requests : Finish(r)

SpecSvc == InitSvc /\ [][NextSvc]_vars

\* ----------------------------------------------------------------- claims

Tasks == DOMAIN tasks
Calls(i) == DOMAIN tasks[i].calls
Call(i, k) == tasks[i].calls[k]
\* the file download_image call k of task i writes to
Target(i, k) == ImgPath(tasks[i].image_subdir, Call(i, k).name)
\* the tasks that have written path
Writers(path) ==
    {i \in Tasks : \E k \in Calls(i) : Call(i, k).wrote /\ Target(i, k) = path}

\* C1: within one document every reference name is fetched by exactly one
\* download (one retry_request call), however many inline markers cite it:
\* no two calls of a task have the same name, and a task that has returned
\* has made a call for every name of its list.
C1_OneFetchPerName ==
    \A i \in Tasks :
        /\ \A k, l \in Calls(i) : Call(i, k).name = Call(i, l).name => k = l
        /\ tasks[i].pc = "returned" =>
              \A r \in DOMAIN tasks[i].image_urls :
                  \E k \in Calls(i) : Call(i, k).name = tasks[i].image_urls[r][1]

\* C2: an I/O error of the directory creation or of the file write never
\* leaves process_markdown_file.
C2_IOErrorContained ==
    \A i \in Tasks : tasks[i].exc \notin {"mkdir", "write"}

\* C3: main() never fails, and whenever main() has finished no task is
\* still running: every task has returned (or ended) before.
C3_MainWaitsAndNeverFails ==
    /\ main_pc # "failed"
    /\ main_pc \in {"done", "failed"} =>
          \A i \in Tasks : tasks[i].pc \in {"returned", "raised"}

\* C4: one retry_request call makes at most Retries GETs and at most
\* Retries - 1 sleeps, every sleep is followed by another GET, and the k-th
\* sleep lasts BackoffFactor^(k-1).
C4_RetryBudget ==
    \A i \in Tasks : \A k \in Calls(i) :
        LET c == Call(i, k)
        IN  /\ c.gets <= Retries
            /\ Len(c.sleeps) <= Retries - 1
            /\ \A j \in DOMAIN c.sleeps : c.sleeps[j] = BackoffFactor ^ (j - 1)
            /\ c.result # "pending" => Len(c.sleeps) < c.gets

\* C5: a fetch whose first two GETs fail with a transient error and whose
\* third GET succeeds has slept exactly twice, the second sleep
\* BackoffFactor times as long as the first, and has written its file
\* (unless the file system refused the write).
C5_TwoTransientThenSuccess ==
    \A i \in Tasks : \A k \in Calls(i) :
        LET c == Call(i, k)
        IN  c.outcomes = <<"transient", "transient", "ok">> =>
               /\ c.gets = 3
               /\ Len(c.sleeps) = 2
               /\ c.sleeps[2] = BackoffFactor * c.sleeps[1]
               /\ c.result = "ok"
               /\ \/ c.wrote /\ Target(i, k) \in DOMAIN files
                  \/ tasks[i].exc = "write" /\ tasks[i].pos = k

C5_Witness ==
    \E i \in Tasks : \E k \in Calls(i) :
        /\ Call(i, k).outcomes = <<"transient", "transient", "ok">>
        /\ Call(i, k).wrote
        /\ Call(i, k).sleeps = <<1, 2>>
        /\ files[Target(i, k)] = tasks[i].image_urls[k][2]

\* C6: a GET that ends with an error status ends the fetch: it is the last
\* GET of the call, no sleep follows it, the call wrote nothing and raised
\* nothing; this on the first attempt as after transient failures.
C6_StatusErrorEndsFetch ==
    \A i \in Tasks : \A k \in Calls(i) :
        LET c == Call(i, k)
            n == Len(c.outcomes)
        IN  (\E j \in 1..n : c.outcomes[j] = "status") =>
               /\ c.outcomes[n] = "status"
               /\ \A j \in 1..(n - 1) : c.outcomes[j] = "transient"
               /\ c.gets = n
               /\ Len(c.sleeps) = n - 1
               /\ c.result = "status"
               /\ ~c.wrote
               /\ tasks[i].pos = k => tasks[i].pc \notin {"get", "sleep", "raised"}

C6_Witness ==
    \E i \in Tasks : \E k, l \in Calls(i) :
        /\ Call(i, k).outcomes = <<"status">>
        /\ Call(i, l).outcomes = <<"transient", "status">>
        /\ Target(i, k) \notin DOMAIN files

\* C7: a fetch whose Retries GETs all fail with a transient error reports
\* failure, writes nothing and lets no exception leave process_markdown_file.
C7_ExhaustedNoWrite ==
    \A i \in Tasks : \A k \in Calls(i) :
        LET c == Call(i, k)
        IN  c.outcomes = [j \in 1..Retries |-> "transient"] =>
               /\ c.gets = Retries
               /\ ~c.wrote
               /\ c.result \in {"pending", "exhausted"}
               /\ c.result = "pending" =>
                     tasks[i].pos = k /\ tasks[i].pc \in {"sleep", "cancelled"}
               /\ tasks[i].pos = k => tasks[i].pc # "raised"

C7_Witness ==
    \E i \in Tasks : \E k \in Calls(i) :
        /\ Call(i, k).result = "exhausted"
        /\ Len(Call(i, k).outcomes) = Retries
        /\ tasks[i].pc = "returned"
        /\ Target(i, k) \notin DOMAIN files

\* C8: no file is written by more than one task.
C8_NoSharedTarget ==
    \A path \in DOMAIN files : Cardinality(Writers(path)) <= 1

\* C9: a download that failed (status error or retries exhausted) stops
\* nothing: a task that has returned has made a call for every pair of its
\* list, every call whose fetch succeeded has written its file (unless the
\* file system refused the write), and no exception comes from a failed
\* fetch; this for every task, whatever the other tasks do.
C9_FetchFailureIsolated ==
    \A i \in Tasks :
        /\ tasks[i].pc = "returned" => Len(tasks[i].calls) = Len(tasks[i].image_urls)
        /\ \A k \in Calls(i) :
              /\ k < tasks[i].pos => Call(i, k).result # "pending"
              /\ Call(i, k).result = "ok" =>
                    \/ Call(i, k).wrote /\ Target(i, k) \in DOMAIN files
                    \/ tasks[i].exc = "write" /\ tasks[i].pos = k
        /\ tasks[i].pc = "raised" =>
              \/ tasks[i].exc \in {"read", "mkdir"}
              \/ tasks[i].exc = "write" /\ Call(i, tasks[i].pos).result = "ok"

C9_Witness ==
    /\ main_pc = "done"
    /\ \E i, j \in Tasks :
          /\ i # j
          /\ Len(tasks[i].calls) = 2
          /\ Call(i, 1).result \in {"status", "exhausted"}
          /\ Call(i, 2).result = "ok" /\ Call(i, 2).wrote
          /\ Len(tasks[j].calls) = 2
          /\ \A k \in Calls(j) : Call(j, k).result = "ok" /\ Call(j, k).wrote

\* C10: a task whose extraction yields no pair makes no download and
\* creates no directory: every sub-directory that exists is named after a
\* file that has at least one pair.
C10_NoImagesNoDirectory ==
    /\ \A i \in Tasks :
          tasks[i].image_urls = << >> =>
              tasks[i].calls = << >> /\ tasks[i].image_subdir = ""
    /\ \A d \in dirs :
          \E j \in Tasks :
              Stem(markdown_files[j]) = d /\ tasks[j].image_urls # << >>

C10_Witness ==
    \E i \in Tasks :
        /\ tasks[i].pc = "returned"
        /\ tasks[i].image_urls = << >>
        /\ Stem(markdown_files[i]) \notin dirs
        /\ main_pc = "done"

\* C11: every file under IMAGE_DIR is at <stem>/<name>.png of a discovered
\* document with that stem and of a pair of it whose fetch succeeded; and
\* when main() is done every pair whose fetch succeeded has its file, holding
\* the bytes that were fetched for it.
C11_FilesAreFetchedReferences ==
    /\ \A path \in DOMAIN files :
          \E i \in Tasks : \E k \in Calls(i) :
              /\ Call(i, k).result = "ok"
              /\ path = <<Stem(markdown_files[i]), tasks[i].image_urls[k][1]>>
    /\ main_pc = "done" =>
          \A i \in Tasks : \A k \in Calls(i) :
              Call(i, k).result = "ok" =>
                  /\ Target(i, k) \in DOMAIN files
                  /\ files[Target(i, k)] = tasks[i].image_urls[k][2]

\* C12: the definition mapping holds every definition line of the text,
\* whatever line it is on, and maps its name to the URL of the last
\* definition line of that name.
C12_EveryDefinitionMapped ==
    extract.pc \in {"references", "inline", "resolved"} =>
        \A k \in DOMAIN extract.content :
            extract.content[k][1] = "def" =>
                LET name == extract.content[k][2]
                    last == CHOOSE l \in DOMAIN extract.content :
                                /\ extract.content[l][1] = "def"
                                /\ extract.content[l][2] = name
                                /\ \A m \in DOMAIN extract.content :
                                      (extract.content[m][1] = "def"
                                         /\ extract.content[m][2] = name) => m <= l
                IN  /\ name \in DOMAIN extract.image_references
                    /\ extract.image_references[name] = extract.content[last][3]

\* C13: image_urls is the sequence of the inline markers of the text, in
\* the order of the text, without the markers whose name is not in the
\* definition mapping, each paired with the URL the mapping gives its name.
C13_ReferencesInMarkerOrder ==
    extract.pc = "resolved" =>
        LET IsResolvable(line) ==
                line[1] = "inline" /\ line[2] \in DOMAIN extract.image_references
            markers == SelectSeq(extract.content, IsResolvable)
        IN  /\ Len(extract.image_urls) = Len(markers)
            /\ \A j \in DOMAIN markers :
                  extract.image_urls[j] =
                      <<markers[j][2], extract.image_references[markers[j][2]]>>

C13_Witness ==
    /\ extract.pc = "resolved"
    /\ Len(extract.image_urls) >= 1
    /\ \E j \in DOMAIN extract.inline_references :
          extract.inline_references[j] \notin DOMAIN extract.image_references
    /\ extract.inline_references[1] \notin DOMAIN extract.image_references

\* C14: a task downloads its pairs strictly one after another: at most one
\* call of a task is unfinished, it is the call of the current pair, only it
\* can have a GET or a sleep in progress, and every call before it has ended
\* with its file written or with a failure.
C14_OneFetchAtATime ==
    \A i \in Tasks :
        /\ Len(tasks[i].calls) <= Len(tasks[i].image_urls)
        /\ \A k \in Calls(i) :
              LET c == Call(i, k)
              IN  /\ c.gets - Len(c.outcomes) \in {0, 1}
                  /\ (c.result = "pending" \/ c.gets > Len(c.outcomes)) =>
                        /\ k = Len(tasks[i].calls)
                        /\ k = tasks[i].pos
                        /\ tasks[i].pc \in {"get", "sleep", "cancelled"}
                  /\ k < Len(tasks[i].calls) =>
                        /\ c.result \in {"ok", "status", "exhausted"}
                        /\ c.result = "ok" => c.wrote
        /\ tasks[i].pc \in {"get", "sleep"} =>
              /\ tasks[i].pos = Len(tasks[i].calls)
              /\ Call(i, tasks[i].pos).result = "pending"

C14_Witness ==
    \E i, j \in Tasks :
        /\ i # j
        /\ tasks[i].pc = "get" /\ tasks[i].pos = 2
        /\ Call(i, 1).result = "ok" /\ Call(i, 1).wrote
        /\ Call(i, 2).result = "pending"
        /\ tasks[j].pc \in {"get", "sleep"}

\* C15: every log record carries the user_id and platform tags of the
\* request whose handling emitted it, also when requests interleave.
C15_TagsOfOwnRequest ==
    \A k \in DOMAIN log :
        log[k].tags = [user_id  |-> requests[log[k].request].user_id,
                       platform |-> requests[log[k].request].platform]

\* C16: once dispatch has returned for a request and no other request is in
\* progress, the context of the ContextFilter is empty.
C16_ContextClearedAfterRequest ==
    (/\ requests # << >>
     /\ \A r \in DOMAIN requests : requests[r].pc = "done")
        => context = EmptyDict

\* C17: no retry_request call makes more than Retries GETs, and eventually
\* every retry_request call has returned, every document worker has returned
\* and main() has completed.
C17_EverythingReturns ==
    /\ [](\A i \in Tasks : \A k \in Calls(i) : Call(i, k).gets <= Retries)
    /\ <>(/\ main_pc = "done"
          /\ \A i \in Tasks :
                /\ tasks[i].pc = "returned"
                /\ \A k \in Calls(i) : Call(i, k).result # "pending")

=============================================================================
